---------------------------- MODULE Spec2Model ----------------------------
(***************************************************************************)
(* Model of YFinanceRateLimiter                                            *)
(* (src/backend/app/services/yfinance_rate_limiter.py) as run by the       *)
(* application's lifespan (src/backend/app/main.py): constructed and       *)
(* started once at startup, stopped once at shutdown.                      *)
(*                                                                         *)
(* Time.  time.time() is modelled by Now == 0: every stored timestamp      *)
(* (last_refill, circuit_opened_at, a cache entry's expiry) is kept        *)
(* relative to the current instant, and Tick(d) lets d seconds pass by     *)
(* moving every stored timestamp d seconds into the past.  A timestamp     *)
(* stops moving once it is so old that no comparison the code makes can    *)
(* tell it from an older one.  Sleeps and wait_for timeouts are countdown  *)
(* timers; time cannot pass an expired timer or a coroutine that is ready  *)
(* to run (the event loop runs ready callbacks before it idles).           *)
(*                                                                         *)
(* Atomicity.  All coroutines run on one event loop, so the code between   *)
(* two awaits is one atomic step; the only real parallelism is the thread  *)
(* asyncio.to_thread runs fetch_func on.                                   *)
(*                                                                         *)
(* Tokens.  self.tokens is a float; the variable tokens holds              *)
(* self.tokens * Scale (Scale = 60), so that the refill of one second,     *)
(* requests_per_minute / 60.0, is the integer requests_per_minute.         *)
(*                                                                         *)
(* Callers.  NumCallers coroutines call fetch_stock_info and               *)
(* fetch_stock_search, MaxFetches times in all, at any instant and         *)
(* concurrently.  Spec has the callers of fetch_stock_info, SpecSearch     *)
(* those of both functions, SpecLifecycle and SpecAll add the shutdown,    *)
(* SpecRestart the shutdown and a start() after it, SpecService the calls  *)
(* StockService makes, SpecSlow is Spec with a rate of one request a       *)
(* minute; FairSpec and FairLifecycle add the event loop's scheduling.     *)
(***************************************************************************)
EXTENDS Integers, Sequences, FiniteSets, TLC

\* ---------------------------------------------------------------- bounds
NumCallers == 2
NumKeys == 2
MaxFetches == 2
MaxRequests == 3
\* the calls of start() in a run
MaxStarts == 2

\* ------------------------------------------------------ program constants
Scale == 60
InitialTokens == 1
MaxRetries == 3
BackoffBase == 10
PacingDelay == 3
BreakerSleep == 10
QueuePollTimeout == 1
TokenSleepMax == 1
InfoWaitTimeout == 120
SearchWaitTimeout == 60
NumVariations == 3

\* configurations the environment may set (os.getenv, read once in __init__)
RpmChoices == {10}
SlowRpmChoices == {1}
TtlChoices == {5}
ThresholdChoices == {1, 2}
BreakerTimeoutChoices == {13}

Callers == 1..NumCallers
Keys == 1..NumKeys
Now == 0

Min(a, b) == IF a <= b THEN a ELSE b
Max(a, b) == IF a >= b THEN a ELSE b

\* the symbols fetch_stock_search tries for a query (symbols_to_try):
\* variation 1 is the query itself, which can be a symbol fetch_stock_info
\* is asked for
Variations == 1..NumVariations
Variation(q, v) == q + NumKeys * (v - 1)

\* values a call can carry: None, an empty result ({}), ticker.info of a
\* symbol with its 'symbol' entry (info) or without it (bare), and the list
\* fetch_stock_search returns, held as the set of the symbols in it
None == [kind |-> "none", symbol |-> 0, items |-> {}]
EmptyResult == [kind |-> "empty", symbol |-> 0, items |-> {}]
Info(k) == [kind |-> "info", symbol |-> k, items |-> {}]
Bare(k) == [kind |-> "bare", symbol |-> k, items |-> {}]
List(syms) == [kind |-> "list", symbol |-> 0, items |-> syms]
Unset == [kind |-> "unset", symbol |-> 0, items |-> {}]
\* what StockService.get_historical_data returns for a symbol with price
\* history, and what validate_symbol returns (True, False)
Hist(k) == [kind |-> "hist", symbol |-> k, items |-> {}]
Valid(k) == [kind |-> "valid", symbol |-> k, items |-> {}]
Invalid == [kind |-> "invalid", symbol |-> 0, items |-> {}]
\* what a call has when an exception left it instead of a return value
Raised == [kind |-> "raised", symbol |-> 0, items |-> {}]
\* Python truthiness of a result: None, {} and [] are falsy
Truthy(v) == v.kind \in {"info", "bare"} \/ (v.kind = "list" /\ v.items # {})

\* what one run of fetch_func on the worker thread can end with: a dict
\* with or without 'symbol', an empty dict, an exception of a rate limit,
\* any other exception
Outcomes == {"ok", "ok_bare", "empty", "rate_limit", "error"}
Success(o) == o \in {"ok", "ok_bare"}

VARIABLES
    requests_per_minute, cache_ttl,
    circuit_breaker_threshold, circuit_breaker_timeout,
    tokens, last_refill,
    request_queue, active_requests,
    cache,
    circuit_state, consecutive_failures, circuit_opened_at,
    processor_task, is_running,
    w_timer, w_req, w_attempt,
    in_flight,
    requests,
    c_pc, c_req, c_timer, c_ret,
    c_query, c_step, c_results,
    nfetch,
    dispatched, last_outcome, since_end,
    nstart, alive

config == <<requests_per_minute, cache_ttl,
            circuit_breaker_threshold, circuit_breaker_timeout>>
\* the calls of start() so far, and the tasks running _process_queue that
\* have not ended
starts == <<nstart, alive>>
bucket == <<tokens, last_refill>>
breaker == <<circuit_state, consecutive_failures, circuit_opened_at>>
worker == <<processor_task, w_timer, w_req, w_attempt>>
callers == <<c_pc, c_req, c_timer, c_ret, c_query, c_step, c_results,
             nfetch>>
\* what has happened, kept for the properties: the requests in the order they
\* were taken from the queue, how the latest run of fetch_func ended, and the
\* seconds since _execute_request last returned (<<>> before the first
\* return; counted up to PacingDelay, the only value it is compared with)
history == <<dispatched, last_outcome, since_end>>
vars == <<config, bucket, breaker, worker, callers, request_queue,
          active_requests, cache, is_running, in_flight, requests, history,
          nstart, alive>>

max_tokens == requests_per_minute * Scale

\* ------------------------------------------------------------ token bucket
\* mutant: a refill fills the bucket whatever time has passed
RefillTokens_Full(tok, lr, rpm) ==
    [tokens |-> rpm * Scale, last_refill |-> Now]

\* _refill_tokens: the new (tokens, last_refill)
RefillTokens(tok, lr, rpm) ==
    LET elapsed == Now - lr
        tokens_to_add == elapsed * rpm
    IN  [tokens |-> Min(rpm * Scale, tok + tokens_to_add), last_refill |-> Now]

\* mutant: the loop never waits, whatever the bucket holds
WaitForTokenPass_NoWait(tok, lr, rpm) ==
    IF tok < Scale
    THEN LET r == RefillTokens(tok, lr, rpm)
         IN  [tokens |-> r.tokens, last_refill |-> r.last_refill,
              ready |-> TRUE]
    ELSE [tokens |-> tok, last_refill |-> lr, ready |-> TRUE]

\* one pass of _wait_for_token's loop: refill when short of a token;
\* ready says the loop has ended, otherwise the coroutine sleeps
WaitForTokenPass(tok, lr, rpm) ==
    IF tok < Scale
    THEN LET r == RefillTokens(tok, lr, rpm)
         IN  [tokens |-> r.tokens, last_refill |-> r.last_refill,
              ready |-> ~(r.tokens < Scale)]
    ELSE [tokens |-> tok, last_refill |-> lr, ready |-> TRUE]

\* mutant: the dispatch takes nothing from the bucket
ConsumeToken_Nothing(tok) == tok

\* tokens -= 1.0
ConsumeToken(tok) == tok - Scale

\* --------------------------------------------------------- circuit breaker
\* mutant: an Open breaker lets the next check through whatever the time
CheckCircuitBreaker_NoTimeout(cs, cf, at, timeout) ==
    IF cs = "OPEN"
    THEN [allowed |-> TRUE, circuit_state |-> "HALF_OPEN",
          consecutive_failures |-> 0]
    ELSE [allowed |-> TRUE, circuit_state |-> cs, consecutive_failures |-> cf]

\* mutant: an Open breaker stays Open however long ago it opened
CheckCircuitBreaker_StaysOpen(cs, cf, at, timeout) ==
    [allowed |-> cs # "OPEN", circuit_state |-> cs,
     consecutive_failures |-> cf]

\* _check_circuit_breaker: the returned bool and the new breaker fields;
\* at is circuit_opened_at: <<>> for None, <<t>> for a timestamp
CheckCircuitBreaker(cs, cf, at, timeout) ==
    IF cs = "CLOSED"
    THEN [allowed |-> TRUE, circuit_state |-> cs, consecutive_failures |-> cf]
    ELSE IF cs = "OPEN"
    THEN IF at # <<>> /\ (Now - at[1]) > timeout
         THEN [allowed |-> TRUE, circuit_state |-> "HALF_OPEN",
               consecutive_failures |-> 0]
         ELSE [allowed |-> FALSE, circuit_state |-> cs,
               consecutive_failures |-> cf]
    ELSE [allowed |-> TRUE, circuit_state |-> cs, consecutive_failures |-> cf]

\* mutant: a success zeroes the count and leaves the state alone
RecordSuccess_KeepsState(cs, cf) ==
    [circuit_state |-> cs, consecutive_failures |-> 0]

\* mutant: a success closes the breaker whatever state it is in
RecordSuccess_ClosesAny(cs, cf) ==
    [circuit_state |-> "CLOSED", consecutive_failures |-> 0]

\* _record_success
RecordSuccess(cs, cf) ==
    [circuit_state |-> IF cs = "HALF_OPEN" THEN "CLOSED" ELSE cs,
     consecutive_failures |-> 0]

\* mutant: a failure is counted and the state is left alone
RecordFailure_CountsOnly(cs, cf, at, threshold, is_rate_limit) ==
    [circuit_state |-> cs,
     consecutive_failures |-> IF is_rate_limit THEN cf + 1 ELSE cf,
     circuit_opened_at |-> at]

\* _record_failure
RecordFailure(cs, cf, at, threshold, is_rate_limit) ==
    IF is_rate_limit
    THEN IF cf + 1 >= threshold
         THEN [circuit_state |-> "OPEN", consecutive_failures |-> cf + 1,
               circuit_opened_at |-> <<Now>>]
         ELSE [circuit_state |-> cs, consecutive_failures |-> cf + 1,
               circuit_opened_at |-> at]
    ELSE [circuit_state |-> cs, consecutive_failures |-> cf,
          circuit_opened_at |-> at]

\* ------------------------------------------------------------------ cache
\* _get_cache_key: f"{prefix}:{identifier}"
GetCacheKey(prefix, identifier) == <<prefix, identifier>>
CacheKeys == {GetCacheKey(p, k) : p \in {"info", "search"}, k \in Keys}

\* self.cache: cache[k] is <<>> when the dict holds no entry for key k, and
\* <<[result, expiry]>> when it holds one
HasEntry(c, k) == c[k] # <<>>

\* mutant: the lookup never finds an entry
GetCached_AlwaysMiss(c, k) == [result |-> None, cache |-> c]

\* mutant: an entry is served whatever its expiry
GetCached_ServesExpired(c, k) ==
    IF HasEntry(c, k)
    THEN [result |-> c[k][1].result, cache |-> c]
    ELSE [result |-> None, cache |-> c]
\* _get_cached: the returned value and the cache it leaves
GetCached(c, k) ==
    IF HasEntry(c, k)
    THEN IF Now < c[k][1].expiry
         THEN [result |-> c[k][1].result, cache |-> c]
         ELSE [result |-> None, cache |-> [c EXCEPT ![k] = <<>>]]
    ELSE [result |-> None, cache |-> c]

\* _set_cache
SetCache(c, k, result, ttl) ==
    [c EXCEPT ![k] = <<[result |-> result, expiry |-> Now + ttl]>>]

\* ---------------------------------------------------------------- backoff
RECURSIVE Pow2(_)
Pow2(n) == IF n = 0 THEN 1 ELSE 2 * Pow2(n - 1)
\* mutant: every retry waits the base delay
Backoff_Constant(attempt) == BackoffBase
\* backoff = 10 * (2 ** attempt)
Backoff(attempt) == BackoffBase * Pow2(attempt)

\* ----------------------------------------------------------- the scheduler
\* processor_task is None before start(), and otherwise names the await the
\* worker coroutine (_process_queue) is suspended at:
\*   "ready"            created by start(), not yet run
\*   "breaker_sleep"    asyncio.sleep(10), line 241
\*   "token_sleep"      asyncio.sleep(min(wait_time, 1.0)), line 172
\*   "queue_wait"       asyncio.wait_for(request_queue.get(), 1.0), line 249
\*   "to_thread"        asyncio.to_thread(fetch_func), line 188
\*   "backoff_sleep"    asyncio.sleep(backoff), lines 199 and 220
\*   "pacing_sleep"     asyncio.sleep(3.0), line 283
\*   "cancelled_pacing" asyncio.sleep(3.0) of the finally block, entered by
\*                      the CancelledError that stop() raised in the request
\*   "cancelled"        the task has ended with CancelledError

CeilDiv(a, b) == (a + b - 1) \div b

\* the sleep of _wait_for_token, min(wait_time, 1.0) with
\* wait_time = (1.0 - tokens) / refill_rate, rounded up to a whole second
TokenSleep(tok, rpm) == Min(CeilDiv(Scale - tok, rpm), TokenSleepMax)

\* mutant: the newest request is taken first
Dequeue_Lifo(q) == [item |-> q[Len(q)], rest |-> SubSeq(q, 1, Len(q) - 1)]

\* request_queue.get(): asyncio.Queue is first in, first out
Dequeue(q) == [item |-> Head(q), rest |-> Tail(q)]

\* mutant: fetch_func is started and not awaited, the loop goes on
ToThread_NoAwait(req) ==
    /\ in_flight' = in_flight + 1
    /\ processor_task' = "ready"
    /\ w_timer' = 0

\* await asyncio.to_thread(fetch_func): fetch_func starts on a worker thread
ToThread(req) ==
    /\ in_flight' = in_flight + 1
    /\ processor_task' = "to_thread"
    /\ w_timer' = 0

\* lines 247-262 with tok tokens in the bucket: take the next request,
\* consume a token and dispatch it, or wait up to a second for a request
QueueGet(tok, lr) ==
    /\ last_refill' = lr
    /\ IF request_queue # <<>>
       THEN LET d == Dequeue(request_queue)
            IN  /\ request_queue' = d.rest
                /\ tokens' = ConsumeToken(tok)
                /\ active_requests' = active_requests + 1
                /\ w_req' = d.item
                /\ w_attempt' = 0
                /\ dispatched' = Append(dispatched, d.item)
                /\ requests' =
                      [requests EXCEPT ![d.item].dispatched_at = <<Now>>]
                /\ ToThread(d.item)
       ELSE /\ tokens' = tok
            /\ processor_task' = "queue_wait"
            /\ w_timer' = QueuePollTimeout
            /\ UNCHANGED <<request_queue, active_requests, w_req, w_attempt,
                           in_flight, dispatched, requests>>

\* _wait_for_token (line 245) and what follows it
WaitForToken ==
    LET p == WaitForTokenPass(tokens, last_refill, requests_per_minute)
    IN  IF p.ready
        THEN QueueGet(p.tokens, p.last_refill)
        ELSE /\ tokens' = p.tokens
             /\ last_refill' = p.last_refill
             /\ processor_task' = "token_sleep"
             /\ w_timer' = TokenSleep(p.tokens, requests_per_minute)
             /\ UNCHANGED <<request_queue, active_requests, w_req, w_attempt,
                            in_flight, dispatched, requests>>

\* mutant: the loop goes on to the queue whatever the breaker answers
LoopTop_IgnoresBreaker ==
    LET b == CheckCircuitBreaker(circuit_state, consecutive_failures,
                                 circuit_opened_at, circuit_breaker_timeout)
    IN  /\ circuit_state' = b.circuit_state
        /\ consecutive_failures' = b.consecutive_failures
        /\ UNCHANGED circuit_opened_at
        /\ WaitForToken

\* one iteration of the while loop of _process_queue, up to its first await
LoopTop ==
    LET b == CheckCircuitBreaker(circuit_state, consecutive_failures,
                                 circuit_opened_at, circuit_breaker_timeout)
    IN  /\ circuit_state' = b.circuit_state
        /\ consecutive_failures' = b.consecutive_failures
        /\ UNCHANGED circuit_opened_at
        /\ IF ~b.allowed
           THEN /\ processor_task' = "breaker_sleep"
                /\ w_timer' = BreakerSleep
                /\ UNCHANGED <<tokens, last_refill, request_queue,
                               active_requests, w_req, w_attempt, in_flight,
                               dispatched, requests>>
           ELSE WaitForToken

\* while self.is_running: the next iteration, or the end of the coroutine
WhileRunning ==
    IF is_running
    THEN LoopTop /\ UNCHANGED alive
    ELSE /\ processor_task' = "finished"
         /\ alive' = alive - 1
         /\ w_timer' = 0
         /\ UNCHANGED <<bucket, breaker, request_queue, active_requests,
                        w_req, w_attempt, in_flight, dispatched, requests>>

\* the task created by start() runs for the first time
WorkerBegin ==
    /\ processor_task = "ready"
    /\ WhileRunning
    /\ UNCHANGED <<config, nstart, callers, cache, is_running,
                   last_outcome, since_end>>

\* the worker wakes from the breaker's sleep (line 241) and continues
BreakerWake ==
    /\ processor_task = "breaker_sleep"
    /\ w_timer = 0
    /\ WhileRunning
    /\ UNCHANGED <<config, nstart, callers, cache, is_running,
                   last_outcome, since_end>>

\* mutant: the finally block does not sleep
PacingWake_NoSleep ==
    /\ processor_task = "pacing_sleep"
    /\ WhileRunning
    /\ UNCHANGED <<config, nstart, callers, cache, is_running,
                   last_outcome, since_end>>

\* the worker wakes from the pacing sleep (line 283); _execute_and_respond
\* returns and the loop continues
PacingWake ==
    /\ processor_task = "pacing_sleep"
    /\ w_timer = 0
    /\ WhileRunning
    /\ UNCHANGED <<config, nstart, callers, cache, is_running,
                   last_outcome, since_end>>

\* wait_for(request_queue.get(), 1.0) times out: continue (line 254)
QueueTimeout ==
    /\ processor_task = "queue_wait"
    /\ w_timer = 0
    /\ request_queue = <<>>
    /\ WhileRunning
    /\ UNCHANGED <<config, nstart, callers, cache, is_running,
                   last_outcome, since_end>>

\* the worker wakes inside _wait_for_token
TokenWake ==
    /\ processor_task = "token_sleep"
    /\ w_timer = 0
    /\ WaitForToken
    /\ UNCHANGED <<config, starts, breaker, callers, cache, is_running,
                   last_outcome, since_end>>

\* a request arrives while the worker waits in request_queue.get()
QueueWake ==
    /\ processor_task = "queue_wait"
    /\ request_queue # <<>>
    /\ QueueGet(tokens, last_refill)
    /\ UNCHANGED <<config, starts, breaker, callers, cache, is_running,
                   last_outcome, since_end>>

\* ------------------------------------------------------------ the executor
\* mutant: an empty result is recorded as a success on the breaker
ClassifyAttempt_EmptyResets(o, attempt) ==
    LET more == attempt < MaxRetries - 1
    IN  CASE Success(o) -> [record |-> "success", next |-> "result"]
          [] o = "empty" ->
                [record |-> "success",
                 next |-> IF more THEN "backoff" ELSE "none"]
          [] o = "rate_limit" ->
                [record |-> "failure",
                 next |-> IF more THEN "backoff" ELSE "none"]
          [] OTHER -> [record |-> "none", next |-> "none"]

\* mutant: an empty result is recorded as a failure on the breaker
ClassifyAttempt_EmptyCounts(o, attempt) ==
    LET more == attempt < MaxRetries - 1
    IN  CASE Success(o) -> [record |-> "success", next |-> "result"]
          [] o \in {"empty", "rate_limit"} ->
                [record |-> "failure",
                 next |-> IF more THEN "backoff" ELSE "none"]
          [] OTHER -> [record |-> "none", next |-> "none"]

\* mutant: an error that is no rate-limit error is retried like an empty
\* result
ClassifyAttempt_ErrorRetries(o, attempt) ==
    LET more == attempt < MaxRetries - 1
    IN  CASE Success(o) -> [record |-> "success", next |-> "result"]
          [] o = "rate_limit" ->
                [record |-> "failure",
                 next |-> IF more THEN "backoff" ELSE "none"]
          [] OTHER ->
                [record |-> "none", next |-> IF more THEN "backoff" ELSE "none"]

\* mutant: an empty result ends the request at once
ClassifyAttempt_EmptyEnds(o, attempt) ==
    LET more == attempt < MaxRetries - 1
    IN  CASE Success(o) -> [record |-> "success", next |-> "result"]
          [] o = "rate_limit" ->
                [record |-> "failure",
                 next |-> IF more THEN "backoff" ELSE "none"]
          [] OTHER -> [record |-> "none", next |-> "none"]

\* mutant: the rate-limit error of the last attempt is not recorded
ClassifyAttempt_LastUncounted(o, attempt) ==
    LET more == attempt < MaxRetries - 1
    IN  CASE Success(o) -> [record |-> "success", next |-> "result"]
          [] o = "empty" ->
                [record |-> "none", next |-> IF more THEN "backoff" ELSE "none"]
          [] o = "rate_limit" ->
                [record |-> IF more THEN "failure" ELSE "none",
                 next |-> IF more THEN "backoff" ELSE "none"]
          [] OTHER -> [record |-> "none", next |-> "none"]

\* mutant: an error that is no rate-limit error is raised again
ClassifyAttempt_Reraises(o, attempt) ==
    LET more == attempt < MaxRetries - 1
    IN  CASE Success(o) -> [record |-> "success", next |-> "result"]
          [] o = "empty" ->
                [record |-> "none", next |-> IF more THEN "backoff" ELSE "none"]
          [] o = "rate_limit" ->
                [record |-> "failure",
                 next |-> IF more THEN "backoff" ELSE "none"]
          [] OTHER -> [record |-> "none", next |-> "raise"]

\* one attempt of _execute_request that ended with outcome o: what it
\* records on the breaker ("success", "failure", "none") and how it goes on
\* ("result": return the result, "backoff": sleep and retry, "none": return
\* None; "raise", an exception leaving _execute_request, is what the except
\* clause of line 203 rules out: it catches every Exception)
ClassifyAttempt(o, attempt) ==
    LET more == attempt < MaxRetries - 1
    IN  CASE Success(o) -> [record |-> "success", next |-> "result"]
          [] o = "empty" ->
                [record |-> "none", next |-> IF more THEN "backoff" ELSE "none"]
          [] o = "rate_limit" ->
                [record |-> "failure",
                 next |-> IF more THEN "backoff" ELSE "none"]
          [] OTHER -> [record |-> "none", next |-> "none"]

\* the breaker after the attempt's record
BreakerAfter(rec) ==
    CASE rec = "success" ->
            LET r == RecordSuccess(circuit_state, consecutive_failures)
            IN  [circuit_state |-> r.circuit_state,
                 consecutive_failures |-> r.consecutive_failures,
                 circuit_opened_at |-> circuit_opened_at]
      [] rec = "failure" ->
            RecordFailure(circuit_state, consecutive_failures,
                          circuit_opened_at, circuit_breaker_threshold, TRUE)
      [] OTHER ->
            [circuit_state |-> circuit_state,
             consecutive_failures |-> consecutive_failures,
             circuit_opened_at |-> circuit_opened_at]

\* what fetch_func returned for symbol sym when it ended with "ok" or
\* "ok_bare"
FetchResult(o, sym) == IF o = "ok" THEN Info(sym) ELSE Bare(sym)

\* mutant: the result is written whatever state the future is in
SetResult_Unguarded(reqs, r, result) ==
    [reqs EXCEPT ![r].future = "done", ![r].result = result]

\* request_future.set_result(result) unless the future is done (line 274)
SetResult(reqs, r, result) ==
    IF reqs[r].future = "pending"
    THEN [reqs EXCEPT ![r].future = "done", ![r].result = result]
    ELSE reqs

\* request_future.set_exception(e) unless the future is done (lines 276-278)
SetException(reqs, r) ==
    IF reqs[r].future = "pending"
    THEN [reqs EXCEPT ![r].future = "exception"]
    ELSE reqs

\* fetch_func returns or raises on its thread while _execute_request awaits
\* it: the rest of the attempt, up to the next await
AttemptReturn(o) ==
    /\ processor_task = "to_thread"
    \* fetch_stock_info does not look into the dict: for its requests one
    \* non-empty dict stands for all
    /\ o = "ok_bare" => requests[w_req].key = 0
    /\ in_flight' = in_flight - 1
    /\ last_outcome' = o
    /\ LET c == ClassifyAttempt(o, w_attempt)
           b == BreakerAfter(c.record)
       IN  /\ circuit_state' = b.circuit_state
           /\ consecutive_failures' = b.consecutive_failures
           /\ circuit_opened_at' = b.circuit_opened_at
           /\ IF c.next = "backoff"
              THEN /\ processor_task' = "backoff_sleep"
                   /\ w_timer' = Backoff(w_attempt)
                   /\ UNCHANGED <<requests, active_requests, w_req, w_attempt,
                                  since_end>>
              ELSE \* _execute_and_respond: the result, then the finally block
                   /\ requests' =
                         IF c.next = "raise"
                         THEN SetException(requests, w_req)
                         ELSE SetResult(requests, w_req,
                                     IF c.next = "result"
                                     THEN FetchResult(o, requests[w_req].symbol)
                                     ELSE None)
                   /\ active_requests' = active_requests - 1
                   /\ processor_task' = "pacing_sleep"
                   /\ w_timer' = PacingDelay
                   /\ w_req' = 0
                   /\ w_attempt' = 0
                   /\ since_end' = <<Now>>
    /\ UNCHANGED <<config, starts, bucket, callers, cache, is_running,
                   request_queue, dispatched>>

\* the backoff sleep ends: the next attempt of the for loop
BackoffWake ==
    /\ processor_task = "backoff_sleep"
    /\ w_timer = 0
    /\ w_attempt' = w_attempt + 1
    /\ ToThread(w_req)
    /\ UNCHANGED <<config, starts, bucket, breaker, callers, cache, is_running,
                   request_queue, active_requests, w_req, requests, history>>

\* -------------------------------------------------------------- lifecycle
\* start(), called once by the application's startup
Start ==
    /\ ~is_running
    /\ processor_task = "None"
    /\ is_running' = TRUE
    /\ processor_task' = "ready"
    /\ nstart' = nstart + 1
    /\ alive' = alive + 1
    /\ UNCHANGED <<config, bucket, breaker, callers, cache, request_queue,
                   active_requests, w_timer, w_req, w_attempt, in_flight,
                   requests, history>>

\* stop(), called once by the application's shutdown: processor_task.cancel()
\* raises CancelledError at the await the worker is suspended at.  Inside
\* _execute_and_respond (to_thread, backoff sleep) no except clause catches
\* it (CancelledError is no Exception), the finally block runs and sleeps
\* 3 s; anywhere else the task ends.  The thread running fetch_func is not
\* interrupted.
Stop ==
    /\ is_running
    /\ is_running' = FALSE
    /\ IF processor_task \in {"to_thread", "backoff_sleep"}
       THEN /\ active_requests' = active_requests - 1
            /\ processor_task' = "cancelled_pacing"
            /\ w_timer' = PacingDelay
            /\ UNCHANGED alive
       ELSE /\ processor_task' = "cancelled"
            /\ alive' = alive - 1
            /\ w_timer' = 0
            /\ UNCHANGED active_requests
    /\ requests' = [r \in 1..Len(requests) |->
                       IF \E i \in 1..Len(request_queue) : request_queue[i] = r
                       THEN [requests[r] EXCEPT !.at_stop = TRUE]
                       ELSE requests[r]]
    /\ UNCHANGED <<config, nstart, bucket, breaker, callers, cache,
                   request_queue, w_req, w_attempt, in_flight, history>>

\* start() called again after stop() has returned (the cancelled task has
\* ended): a new task runs _process_queue on the same queue, bucket, breaker
\* and cache
Restart ==
    /\ ~is_running
    /\ processor_task \in {"cancelled", "finished"}
    /\ nstart < MaxStarts
    /\ nstart' = nstart + 1
    /\ alive' = alive + 1
    /\ is_running' = TRUE
    /\ processor_task' = "ready"
    /\ w_timer' = 0
    /\ w_req' = 0
    /\ w_attempt' = 0
    /\ UNCHANGED <<config, bucket, breaker, callers, cache, request_queue,
                   active_requests, in_flight, requests, history>>

\* mutant: start() creates a task whether or not one is running
StartRunning_Spawns ==
    /\ is_running
    /\ nstart < MaxStarts
    /\ nstart' = nstart + 1
    /\ alive' = alive + 1
    /\ UNCHANGED <<config, bucket, breaker, worker, callers, cache,
                   is_running, request_queue, active_requests, in_flight,
                   requests, history>>

\* start() called while the limiter is running: is_running is true and
\* nothing is done (line 72)
StartRunning ==
    /\ is_running
    /\ nstart < MaxStarts
    /\ nstart' = nstart + 1
    /\ UNCHANGED <<config, alive, bucket, breaker, worker, callers, cache,
                   is_running, request_queue, active_requests, in_flight,
                   requests, history>>

\* the sleep of the finally block ends and CancelledError leaves the task
CancelledPacingWake ==
    /\ processor_task = "cancelled_pacing"
    /\ w_timer = 0
    /\ processor_task' = "cancelled"
    /\ alive' = alive - 1
    /\ UNCHANGED <<config, nstart, bucket, breaker, callers, cache, is_running,
                   request_queue, active_requests, w_timer, w_req, w_attempt,
                   in_flight, requests, history>>

\* fetch_func ends on its thread after the await on it was cancelled: its
\* result is dropped
ThreadEndsUnawaited ==
    /\ in_flight > 0
    /\ processor_task # "to_thread"
    /\ in_flight' = in_flight - 1
    /\ UNCHANGED <<config, starts, bucket, breaker, worker, callers, cache,
                   is_running, request_queue, active_requests, requests,
                   history>>

\* ---------------------------------------------------------------- callers
\* requests[r] is the pair (request_future, fetch) of one call, with the
\* symbol fetch closes over, and for the properties the symbol
\* fetch_stock_info was called for (key, 0 for a request of
\* fetch_stock_search), the time of the call (issued_at: <<t>>, and <<>>
\* for a request of fetch_stock_search), the latest earlier call of
\* fetch_stock_info for the same symbol made less than cache_ttl seconds
\* before it (twin, 0 when there is none), whether the caller of that
\* earlier call was still waiting for it (twin_waiting), whether the
\* request was on the queue when stop() was called (at_stop), and the time
\* the worker took it from the queue (dispatched_at: <<>> while it has not)
Twin(reqs, k) ==
    LET near == {i \in 1..Len(reqs) :
                    /\ reqs[i].key = k
                    /\ Now - reqs[i].issued_at[1] < cache_ttl}
    IN  IF near = {} THEN 0 ELSE CHOOSE i \in near : \A j \in near : j <= i

TwinWaiting(reqs, k) ==
    \E c \in Callers : c_pc[c] = "waiting" /\ c_req[c] = Twin(reqs, k)

\* callers are coroutines that differ in nothing but their number: the
\* next call is made by the idle caller of the lowest number
NextCaller(c) == c_pc[c] = "idle" /\ \A x \in 1..(c - 1) : c_pc[x] # "idle"

\* the requests the searches under way have still to make
RECURSIVE ToCome(_)
ToCome(n) ==
    IF n = 0 THEN 0
    ELSE ToCome(n - 1)
            + (IF c_pc[n] = "search_waiting" THEN NumVariations - c_step[n]
               ELSE 0)

\* the requests made and to come, which the model keeps within MaxRequests
Committed == Len(requests) + ToCome(NumCallers)

\* mutant: on a hit the cached value is returned and the request is put on
\* the queue all the same
CacheHit_AlsoEnqueues(c, result) ==
    /\ c_ret' = [c_ret EXCEPT ![c] = result]
    /\ requests' = Append(requests,
           [key |-> result.symbol, symbol |-> result.symbol,
            future |-> "pending", result |-> None,
            issued_at |-> <<Now>>, twin |-> Twin(requests, result.symbol),
            twin_waiting |-> TwinWaiting(requests, result.symbol),
            at_stop |-> FALSE, dispatched_at |-> <<>>])
    /\ request_queue' = Append(request_queue, Len(requests) + 1)
    /\ UNCHANGED <<c_pc, c_req, c_timer>>

\* if cached: return cached (lines 297-299)
CacheHit(c, result) ==
    /\ c_ret' = [c_ret EXCEPT ![c] = result]
    /\ UNCHANGED <<c_pc, c_req, c_timer, requests, request_queue>>

\* mutant: a call for a symbol that has a request waiting joins that
\* request instead of putting its own on the queue
FetchStockInfo_Coalesces(c, k) ==
    /\ processor_task # "None"
    /\ NextCaller(c)
    /\ nfetch < MaxFetches
    /\ nfetch' = nfetch + 1
    /\ LET g == GetCached(cache, GetCacheKey("info", k))
           same == {r \in 1..Len(requests) :
                       requests[r].key = k /\ requests[r].future = "pending"}
       IN  /\ cache' = g.cache
           /\ IF g.result # None
              THEN CacheHit(c, g.result)
              ELSE IF same # {}
              THEN /\ c_pc' = [c_pc EXCEPT ![c] = "waiting"]
                   /\ c_req' = [c_req EXCEPT ![c] = CHOOSE r \in same : TRUE]
                   /\ c_timer' = [c_timer EXCEPT ![c] = InfoWaitTimeout]
                   /\ c_ret' = [c_ret EXCEPT ![c] = Unset]
                   /\ UNCHANGED <<requests, request_queue>>
              ELSE /\ Committed < MaxRequests
                   /\ requests' = Append(requests,
                          [key |-> k, symbol |-> k,
                           future |-> "pending", result |-> None,
                           issued_at |-> <<Now>>,
                           twin |-> Twin(requests, k),
                           twin_waiting |-> TwinWaiting(requests, k),
                           at_stop |-> FALSE, dispatched_at |-> <<>>])
                   /\ request_queue' = Append(request_queue, Len(requests) + 1)
                   /\ c_pc' = [c_pc EXCEPT ![c] = "waiting"]
                   /\ c_req' = [c_req EXCEPT ![c] = Len(requests) + 1]
                   /\ c_timer' = [c_timer EXCEPT ![c] = InfoWaitTimeout]
                   /\ c_ret' = [c_ret EXCEPT ![c] = Unset]
    /\ UNCHANGED <<config, starts, bucket, breaker, worker, is_running,
                   active_requests, in_flight, history, c_query, c_step,
                   c_results>>

\* fetch_stock_info(symbol) up to its await: a cache hit returns; a miss
\* puts (request_future, fetch) on the queue and waits for the future
FetchStockInfo(c, k) ==
    /\ processor_task # "None"
    /\ NextCaller(c)
    /\ nfetch < MaxFetches
    /\ nfetch' = nfetch + 1
    /\ LET g == GetCached(cache, GetCacheKey("info", k))
       IN  /\ cache' = g.cache
           /\ IF g.result # None
              THEN CacheHit(c, g.result)
              ELSE /\ Committed < MaxRequests
                   /\ requests' = Append(requests,
                          [key |-> k, symbol |-> k,
                           future |-> "pending", result |-> None,
                           issued_at |-> <<Now>>,
                           twin |-> Twin(requests, k),
                           twin_waiting |-> TwinWaiting(requests, k),
                           at_stop |-> FALSE, dispatched_at |-> <<>>])
                   /\ request_queue' = Append(request_queue, Len(requests) + 1)
                   /\ c_pc' = [c_pc EXCEPT ![c] = "waiting"]
                   /\ c_req' = [c_req EXCEPT ![c] = Len(requests) + 1]
                   /\ c_timer' = [c_timer EXCEPT ![c] = InfoWaitTimeout]
                   /\ c_ret' = [c_ret EXCEPT ![c] = Unset]
    /\ UNCHANGED <<config, starts, bucket, breaker, worker, is_running,
                   active_requests, in_flight, history, c_query, c_step,
                   c_results>>

\* mutant: the caller stores whatever the future holds, None too
FetchReturn_CachesAny(c) ==
    /\ c_pc[c] = "waiting"
    /\ requests[c_req[c]].future = "done"
    /\ LET result == requests[c_req[c]].result
           key == requests[c_req[c]].key
       IN  /\ cache' = SetCache(cache, GetCacheKey("info", key), result,
                                cache_ttl)
           /\ c_ret' = [c_ret EXCEPT ![c] = result]
    /\ c_pc' = [c_pc EXCEPT ![c] = "idle"]
    /\ c_req' = [c_req EXCEPT ![c] = 0]
    /\ c_timer' = [c_timer EXCEPT ![c] = 0]
    /\ UNCHANGED <<config, starts, bucket, breaker, worker, is_running, nfetch,
                   request_queue, active_requests, in_flight, requests,
                   history, c_query, c_step, c_results>>

\* wait_for(request_future) returns the future's result (lines 312-317)
FetchReturn(c) ==
    /\ c_pc[c] = "waiting"
    /\ requests[c_req[c]].future \in {"done", "exception"}
    /\ LET result == requests[c_req[c]].result
           key == requests[c_req[c]].key
       IN  IF requests[c_req[c]].future = "exception"
           THEN \* no except clause of the caller takes it (line 318)
                /\ c_ret' = [c_ret EXCEPT ![c] = Raised]
                /\ UNCHANGED cache
           ELSE /\ cache' = IF Truthy(result)
                            THEN SetCache(cache, GetCacheKey("info", key),
                                          result, cache_ttl)
                            ELSE cache
                /\ c_ret' = [c_ret EXCEPT ![c] = result]
    /\ c_pc' = [c_pc EXCEPT ![c] = "idle"]
    /\ c_req' = [c_req EXCEPT ![c] = 0]
    /\ c_timer' = [c_timer EXCEPT ![c] = 0]
    /\ UNCHANGED <<config, starts, bucket, breaker, worker, is_running, nfetch,
                   request_queue, active_requests, in_flight, requests,
                   history, c_query, c_step, c_results>>

\* mutant: the caller that times out takes its request off the queue
FetchTimeout_Withdraws(c) ==
    /\ c_pc[c] = "waiting"
    /\ c_timer[c] = 0
    /\ requests[c_req[c]].future = "pending"
    /\ requests' = [requests EXCEPT ![c_req[c]].future = "cancelled"]
    /\ request_queue' = SelectSeq(request_queue, LAMBDA r : r # c_req[c])
    /\ c_ret' = [c_ret EXCEPT ![c] = None]
    /\ c_pc' = [c_pc EXCEPT ![c] = "idle"]
    /\ c_req' = [c_req EXCEPT ![c] = 0]
    /\ UNCHANGED <<config, starts, bucket, breaker, worker, is_running, nfetch,
                   c_timer, cache, active_requests, in_flight,
                   history, c_query, c_step, c_results>>

\* mutant: the wait runs out only while the limiter is running
FetchTimeout_WhileRunning(c) ==
    /\ is_running
    /\ c_pc[c] = "waiting"
    /\ c_timer[c] = 0
    /\ requests[c_req[c]].future = "pending"
    /\ requests' = [requests EXCEPT ![c_req[c]].future = "cancelled"]
    /\ c_ret' = [c_ret EXCEPT ![c] = None]
    /\ c_pc' = [c_pc EXCEPT ![c] = "idle"]
    /\ c_req' = [c_req EXCEPT ![c] = 0]
    /\ UNCHANGED <<config, starts, bucket, breaker, worker, is_running, nfetch,
                   c_timer, cache, request_queue, active_requests, in_flight,
                   history, c_query, c_step, c_results>>

\* wait_for times out: it cancels the future and raises TimeoutError, and
\* the caller returns None (lines 318-320)
FetchTimeout(c) ==
    /\ c_pc[c] = "waiting"
    /\ c_timer[c] = 0
    /\ requests[c_req[c]].future = "pending"
    /\ requests' = [requests EXCEPT ![c_req[c]].future = "cancelled"]
    /\ c_ret' = [c_ret EXCEPT ![c] = None]
    /\ c_pc' = [c_pc EXCEPT ![c] = "idle"]
    /\ c_req' = [c_req EXCEPT ![c] = 0]
    /\ UNCHANGED <<config, starts, bucket, breaker, worker, is_running, nfetch,
                   c_timer, cache, request_queue, active_requests, in_flight,
                   history, c_query, c_step, c_results>>

\* fetch_stock_search puts the request for variation v of query q on the
\* queue and waits for the future (lines 348-360); reqs is the requests
\* made so far
SearchPut(c, q, v, reqs) ==
    /\ requests' = Append(reqs,
           [key |-> 0, symbol |-> Variation(q, v),
            future |-> "pending", result |-> None,
            issued_at |-> <<>>, twin |-> 0, twin_waiting |-> FALSE,
            at_stop |-> FALSE, dispatched_at |-> <<>>])
    /\ request_queue' = Append(request_queue, Len(reqs) + 1)
    /\ c_req' = [c_req EXCEPT ![c] = Len(reqs) + 1]
    /\ c_timer' = [c_timer EXCEPT ![c] = SearchWaitTimeout]
    /\ c_step' = [c_step EXCEPT ![c] = v]

\* fetch_stock_search(query) up to its first await: a cache hit returns; a
\* miss starts the loop over symbols_to_try
FetchStockSearch(c, q) ==
    /\ processor_task # "None"
    /\ NextCaller(c)
    /\ nfetch < MaxFetches
    /\ nfetch' = nfetch + 1
    /\ LET g == GetCached(cache, GetCacheKey("search", q))
       IN  /\ cache' = g.cache
           /\ IF g.result # None
              THEN /\ c_ret' = [c_ret EXCEPT ![c] = g.result]
                   /\ UNCHANGED <<c_pc, c_req, c_timer, c_query, c_step,
                                  c_results, requests, request_queue>>
              ELSE /\ Committed + NumVariations <= MaxRequests
                   /\ c_query' = [c_query EXCEPT ![c] = q]
                   /\ c_results' = [c_results EXCEPT ![c] = {}]
                   /\ c_pc' = [c_pc EXCEPT ![c] = "search_waiting"]
                   /\ c_ret' = [c_ret EXCEPT ![c] = Unset]
                   /\ SearchPut(c, q, 1, requests)
    /\ UNCHANGED <<config, starts, bucket, breaker, worker, is_running,
                   active_requests, in_flight, history>>

\* the loop of fetch_stock_search goes on with results found so far: the
\* next variation, or after the last one the cache and the return
\* (lines 348, 377-381); reqs is the requests as the iteration left them
SearchContinue(c, results, reqs) ==
    IF c_step[c] < NumVariations
    THEN /\ SearchPut(c, c_query[c], c_step[c] + 1, reqs)
         /\ c_results' = [c_results EXCEPT ![c] = results]
         /\ UNCHANGED <<c_pc, c_ret, c_query, cache>>
    ELSE /\ cache' = IF results # {}
                     THEN SetCache(cache, GetCacheKey("search", c_query[c]),
                                   List(results), cache_ttl)
                     ELSE cache
         /\ c_ret' = [c_ret EXCEPT ![c] = List(results)]
         /\ c_pc' = [c_pc EXCEPT ![c] = "idle"]
         /\ c_req' = [c_req EXCEPT ![c] = 0]
         /\ c_timer' = [c_timer EXCEPT ![c] = 0]
         /\ c_step' = [c_step EXCEPT ![c] = 0]
         /\ c_query' = [c_query EXCEPT ![c] = 0]
         /\ c_results' = [c_results EXCEPT ![c] = {}]
         /\ requests' = reqs
         /\ UNCHANGED request_queue

\* wait_for(request_future, 60) returns info: it is added to results when
\* it is non-empty and has a 'symbol' not seen yet (lines 360-372)
SearchReturn(c) ==
    /\ c_pc[c] = "search_waiting"
    /\ requests[c_req[c]].future = "done"
    /\ LET info == requests[c_req[c]].result
       IN  SearchContinue(c,
                          IF info.kind = "info"
                          THEN c_results[c] \cup {info.symbol}
                          ELSE c_results[c],
                          requests)
    /\ UNCHANGED <<config, starts, bucket, breaker, worker, is_running, nfetch,
                   active_requests, in_flight, history>>

\* wait_for times out and cancels the future, or the future holds an
\* exception; the except clause goes on with the next variation (lines
\* 373-375)
SearchTimeout(c) ==
    /\ c_pc[c] = "search_waiting"
    /\ \/ c_timer[c] = 0 /\ requests[c_req[c]].future = "pending"
       \/ requests[c_req[c]].future = "exception"
    /\ SearchContinue(c, c_results[c],
                      IF requests[c_req[c]].future = "pending"
                      THEN [requests EXCEPT ![c_req[c]].future = "cancelled"]
                      ELSE requests)
    /\ UNCHANGED <<config, starts, bucket, breaker, worker, is_running, nfetch,
                   active_requests, in_flight, history>>

\* ------------------------------------------------------------ the service
\* StockService.get_historical_data(symbol): yf.Ticker(symbol).history() is
\* called in the coroutine itself (stock_service.py, lines 108-123); found
\* says whether yfinance returned rows (an empty frame or an exception gives
\* None)
GetHistoricalData(c, k, found) ==
    /\ NextCaller(c)
    /\ nfetch < MaxFetches
    /\ nfetch' = nfetch + 1
    /\ c_ret' = [c_ret EXCEPT ![c] = IF found THEN Hist(k) ELSE None]
    /\ UNCHANGED <<config, starts, bucket, breaker, worker, is_running, cache,
                   request_queue, active_requests, in_flight, requests,
                   history, c_pc, c_req, c_timer, c_query, c_step, c_results>>

\* StockService.validate_symbol(symbol): yf.Ticker(symbol).info is read in
\* the coroutine itself (stock_service.py, lines 186-191)
ValidateSymbol(c, k, found) ==
    /\ NextCaller(c)
    /\ nfetch < MaxFetches
    /\ nfetch' = nfetch + 1
    /\ c_ret' = [c_ret EXCEPT ![c] = IF found THEN Valid(k) ELSE Invalid]
    /\ UNCHANGED <<config, starts, bucket, breaker, worker, is_running, cache,
                   request_queue, active_requests, in_flight, requests,
                   history, c_pc, c_req, c_timer, c_query, c_step, c_results>>

\* ------------------------------------------------------------------- time
Sleeping ==
    processor_task \in {"breaker_sleep", "token_sleep", "queue_wait",
                        "backoff_sleep", "pacing_sleep", "cancelled_pacing"}

\* caller c waits in wait_for(request_future)
Waiting(c) == c_pc[c] \in {"waiting", "search_waiting"}

\* a coroutine the event loop would run now
Ready ==
    \/ processor_task = "ready"
    \/ processor_task = "queue_wait" /\ request_queue # <<>>
    \/ Sleeping /\ w_timer = 0
    \/ \E c \in Callers :
          /\ Waiting(c)
          /\ \/ requests[c_req[c]].future \in {"done", "exception"}
             \/ c_timer[c] = 0

\* the worker polls an empty queue: every QueuePollTimeout seconds the poll
\* times out and the loop comes back to it with nothing changed (the breaker
\* is not Open and the bucket holds a token whenever the worker polls)
Polling == processor_task = "queue_wait"

\* the timers that are running and that time cannot pass
Deadlines ==
    (IF Sleeping /\ ~Polling THEN {w_timer} ELSE {})
        \cup {c_timer[c] : c \in {x \in Callers : Waiting(x)}}

\* the instants at which a comparison a caller makes with a stored timestamp
\* changes (a cache entry expires, the bucket would refill to max_tokens).
\* fetch_func takes no time, or runs until a waiting caller's deadline.
Marks ==
    IF processor_task = "to_thread"
    THEN {}
    ELSE {cache[k][1].expiry : k \in {x \in CacheKeys : HasEntry(cache, x)}}
            \cup {Scale - (Now - last_refill)}

\* the steps time may take: to a deadline or a mark, and never past a deadline
Steps ==
    {d \in Deadlines \cup Marks :
        /\ d >= 1
        /\ \A t \in Deadlines : d <= t}

\* a window longer than Horizon seconds is one whose bound of
\* max_tokens + T * refill_rate no run of MaxRequests dispatches can pass
Horizon ==
    Max(0, CeilDiv(MaxRequests * Scale - max_tokens, requests_per_minute))

\* a stored time (<<>> for none) after d more seconds, kept apart from the
\* present up to an age of most
Older(at, d, most) ==
    IF at = <<>> THEN <<>> ELSE <<Max(at[1] - d, Now - most)>>

\* d seconds pass
Tick(d) ==
    /\ processor_task # "None"
    /\ ~Ready
    /\ w_timer' = IF Polling THEN Max(w_timer - d, 0)
                  ELSE IF Sleeping THEN w_timer - d ELSE w_timer
    /\ c_timer' = [c \in Callers |->
                      IF Waiting(c) THEN c_timer[c] - d ELSE c_timer[c]]
    /\ last_refill' = Max(last_refill - d, Now - Scale)
    /\ circuit_opened_at' =
          IF circuit_opened_at = <<>> THEN <<>>
          ELSE <<Max(circuit_opened_at[1] - d,
                     Now - (circuit_breaker_timeout + 1))>>
    /\ requests' = [r \in 1..Len(requests) |->
                       [requests[r] EXCEPT
                           !.issued_at = Older(@, d, cache_ttl + 1),
                           !.dispatched_at = Older(@, d, Horizon)]]
    /\ cache' = [k \in CacheKeys |->
                    IF HasEntry(cache, k)
                    THEN <<[cache[k][1] EXCEPT
                               !.expiry = Max(cache[k][1].expiry - d, Now)]>>
                    ELSE <<>>]
    /\ UNCHANGED <<config, starts, tokens, circuit_state, consecutive_failures,
                   processor_task, w_req, w_attempt, c_pc, c_req, c_ret,
                   c_query, c_step, c_results, nfetch, request_queue,
                   active_requests, is_running, in_flight, dispatched,
                   last_outcome>>
    /\ since_end' = IF since_end = <<>> THEN <<>>
                    ELSE <<Min(since_end[1] + d, PacingDelay)>>

\* ------------------------------------------------------------------- spec
\* the state __init__ leaves (lines 32-61)
Constructed ==
    /\ cache_ttl \in TtlChoices
    /\ circuit_breaker_threshold \in ThresholdChoices
    /\ circuit_breaker_timeout \in BreakerTimeoutChoices
    /\ tokens = InitialTokens * Scale
    /\ last_refill = Now
    /\ request_queue = <<>>
    /\ active_requests = 0
    /\ cache = [k \in CacheKeys |-> <<>>]
    /\ circuit_state = "CLOSED"
    /\ consecutive_failures = 0
    /\ circuit_opened_at = <<>>
    /\ processor_task = "None"
    /\ is_running = FALSE
    /\ w_timer = 0
    /\ w_req = 0
    /\ w_attempt = 0
    /\ in_flight = 0
    /\ requests = <<>>
    /\ c_pc = [c \in Callers |-> "idle"]
    /\ c_req = [c \in Callers |-> 0]
    /\ c_timer = [c \in Callers |-> 0]
    /\ c_ret = [c \in Callers |-> Unset]
    /\ c_query = [c \in Callers |-> 0]
    /\ c_step = [c \in Callers |-> 0]
    /\ c_results = [c \in Callers |-> {}]
    /\ nfetch = 0
    /\ dispatched = <<>>
    /\ last_outcome = "none"
    /\ since_end = <<>>
    /\ nstart = 0
    /\ alive = 0

\* with YFINANCE_REQUESTS_PER_MINUTE at its default
Init == requests_per_minute \in RpmChoices /\ Constructed

\* with YFINANCE_REQUESTS_PER_MINUTE set low
InitSlow == requests_per_minute \in SlowRpmChoices /\ Constructed

Next ==
    \/ Start
    \/ WorkerBegin
    \/ BreakerWake
    \/ PacingWake
    \/ QueueTimeout
    \/ TokenWake
    \/ QueueWake
    \/ \E o \in Outcomes : AttemptReturn(o)
    \/ BackoffWake
    \/ \E c \in Callers, k \in Keys : FetchStockInfo(c, k)
    \/ \E c \in Callers : FetchReturn(c)
    \/ \E c \in Callers : FetchTimeout(c)
    \/ \E d \in Steps : Tick(d)

\* the gateway from startup on
Spec == Init /\ [][Next]_vars

\* the gateway from startup to shutdown and after
NextLifecycle ==
    \/ Next
    \/ Stop
    \/ CancelledPacingWake
    \/ ThreadEndsUnawaited

SpecLifecycle == Init /\ [][NextLifecycle]_vars

\* the event loop runs every coroutine that is ready (a worker whose sleep
\* has ended or whose queue holds a request, a caller whose future is done
\* or whose wait has run out), and time passes when none is; fetch_func on
\* its thread, start(), stop() and new calls come when they come
Resume ==
    \/ WorkerBegin \/ BreakerWake \/ PacingWake \/ QueueTimeout
    \/ TokenWake \/ QueueWake \/ BackoffWake \/ CancelledPacingWake
    \/ \E c \in Callers : FetchReturn(c) \/ FetchTimeout(c)
    \/ \E d \in Steps : Tick(d)

FairLifecycle == SpecLifecycle /\ WF_vars(Resume)

\* the gateway with a rate of one request a minute
SpecSlow == InitSlow /\ [][Next]_vars

\* the running gateway with the event loop's scheduling and a provider that
\* answers every call, with a result or with an error
FairSpec ==
    Spec /\ WF_vars(Resume) /\ WF_vars(\E o \in Outcomes : AttemptReturn(o))

\* the shutdown followed by another start(): every start() but the last of
\* the run is followed by a stop()
NextRestart ==
    \/ Next
    \/ nstart < MaxStarts /\ Stop
    \/ StartRunning
    \/ CancelledPacingWake
    \/ ThreadEndsUnawaited
    \/ Restart

SpecRestart == Init /\ [][NextRestart]_vars

\* the gateway with callers of fetch_stock_info and of fetch_stock_search
NextSearch ==
    \/ Next
    \/ \E c \in Callers, q \in Keys : FetchStockSearch(c, q)
    \/ \E c \in Callers : SearchReturn(c)
    \/ \E c \in Callers : SearchTimeout(c)

SpecSearch == Init /\ [][NextSearch]_vars

\* the callers of StockService: get_stock_info (and get_index_stocks, a
\* loop of fetch_stock_info) goes to the limiter, get_historical_data and
\* validate_symbol do not
NextService ==
    \/ Next
    \/ \E c \in Callers, k \in Keys, found \in BOOLEAN :
          GetHistoricalData(c, k, found)
    \/ \E c \in Callers, k \in Keys, found \in BOOLEAN :
          ValidateSymbol(c, k, found)

SpecService == Init /\ [][NextService]_vars

\* both kinds of callers, and the shutdown
NextAll ==
    \/ NextSearch
    \/ Stop
    \/ CancelledPacingWake
    \/ ThreadEndsUnawaited

SpecAll == Init /\ [][NextAll]_vars

\* ------------------------------------------------------------- properties
\* a run of fetch_func ends while _execute_request awaits it
AttemptEnds == processor_task = "to_thread" /\ in_flight' = in_flight - 1

\* a request is taken from the queue
Dequeues == dispatched' # dispatched

\* C1: in every reachable state, whatever the callers and the worker have
\* done, at most one fetch_func is running
C1_SingleFlight == in_flight <= 1

\* fetch_func runs for one request while both callers wait and another
\* request is queued
C1_Witness ==
    /\ in_flight = 1
    /\ request_queue # <<>>
    /\ \A c \in Callers : c_pc[c] = "waiting"

\* C2: after any refills and consumes the bucket holds at least no token and
\* at most max_tokens
C2_TokensInRange == 0 <= tokens /\ tokens <= max_tokens

\* the bucket was refilled to max_tokens and a token then consumed from it,
\* the second token consumed
C2_Witness == Len(dispatched) = 2 /\ tokens = max_tokens - Scale

\* C3: requests are dispatched in the order they were put on the queue
\* (request r is the r-th put), and every run of fetch_func, first attempt
\* or retry, is for the request dispatched last: all attempts of a request
\* come before the first attempt of the next
C3_FifoOrder ==
    /\ \A i \in 1..Len(dispatched) : dispatched[i] = i
    /\ processor_task \in {"to_thread", "backoff_sleep"}
          => w_req = dispatched[Len(dispatched)]

\* two calls made at the same instant; the first request was dispatched and
\* finished, and the second is in a retry
C3_Witness ==
    /\ dispatched = <<1, 2>>
    /\ requests[1].issued_at = requests[2].issued_at
    /\ requests[1].issued_at # <<>>
    /\ processor_task = "to_thread"
    /\ w_attempt > 0

\* C4: the breaker goes from Closed to Open exactly at the step at which a
\* rate-limit failure brings consecutive_failures to the threshold; an
\* attempt that ends with an empty result or another error leaves
\* circuit_state as it is and does not raise consecutive_failures
C4_OpensAtThreshold ==
    [][/\ (circuit_state = "CLOSED" /\ circuit_state' = "OPEN")
            => /\ AttemptEnds
               /\ last_outcome' = "rate_limit"
               /\ consecutive_failures = circuit_breaker_threshold - 1
               /\ consecutive_failures' = circuit_breaker_threshold
       /\ (/\ circuit_state = "CLOSED"
           /\ AttemptEnds
           /\ last_outcome' = "rate_limit"
           /\ consecutive_failures + 1 = circuit_breaker_threshold)
            => circuit_state' = "OPEN"
       /\ (AttemptEnds /\ last_outcome' \in {"empty", "error"})
            => /\ circuit_state' = circuit_state
               /\ consecutive_failures' <= consecutive_failures]_vars

\* the second attempt of the first request has just ended in the second
\* rate-limit failure and opened the breaker of threshold 2
C4_Witness ==
    /\ circuit_breaker_threshold = 2
    /\ Len(dispatched) = 1
    /\ w_attempt = 1
    /\ processor_task = "backoff_sleep"
    /\ w_timer = Backoff(1)
    /\ circuit_state = "OPEN"
    /\ last_outcome = "rate_limit"
    /\ consecutive_failures = circuit_breaker_threshold
    /\ circuit_opened_at = <<Now>>

\* C5: in HalfOpen a single rate-limit failure moves the breaker to Open
\* at once and stamps circuit_opened_at with the current time, whatever the
\* threshold
C5_HalfOpenFailureReopens ==
    [][(/\ circuit_state = "HALF_OPEN"
        /\ AttemptEnds
        /\ last_outcome' = "rate_limit")
          => /\ circuit_state' = "OPEN"
             /\ circuit_opened_at' = <<Now>>]_vars

\* C6: a non-empty result sets consecutive_failures to 0 in every state of
\* the breaker, and in HalfOpen it moves the breaker to Closed
C6_SuccessResets ==
    [][(AttemptEnds /\ Success(last_outcome'))
          => /\ consecutive_failures' = 0
             /\ circuit_state = "HALF_OPEN" => circuit_state' = "CLOSED"]_vars

\* the breaker had opened, and a non-empty result has just closed it
C6_Witness ==
    /\ circuit_state = "CLOSED"
    /\ circuit_opened_at # <<>>
    /\ last_outcome = "ok"
    /\ consecutive_failures = 0
    /\ processor_task = "pacing_sleep"
    /\ w_timer = PacingDelay

\* the worker evaluates _check_circuit_breaker
CheckStep ==
    is_running /\ (WorkerBegin \/ BreakerWake \/ PacingWake \/ QueueTimeout)

\* seconds since the breaker opened
OpenFor == Now - circuit_opened_at[1]

\* C7: a check made on an Open breaker less than circuit_breaker_timeout
\* after circuit_opened_at answers false and leaves the breaker Open (the
\* worker sleeps and checks again); a check made more than
\* circuit_breaker_timeout after it answers true and moves the breaker to
\* HalfOpen
C7_OpenUntilTimeout ==
    [][(CheckStep /\ circuit_state = "OPEN")
          => /\ OpenFor < circuit_breaker_timeout
                  => /\ circuit_state' = "OPEN"
                     /\ processor_task' = "breaker_sleep"
             /\ OpenFor > circuit_breaker_timeout
                  => /\ circuit_state' = "HALF_OPEN"
                     /\ processor_task' # "breaker_sleep"]_vars

\* the last attempt of the first request opened the breaker; the checks in
\* the seconds after it answered false, a later one has moved the breaker to
\* HalfOpen, and the second request is about to be taken
C7_Witness ==
    /\ circuit_state = "HALF_OPEN"
    /\ last_outcome = "rate_limit"
    /\ dispatched = <<1>>
    /\ request_queue = <<2>>
    /\ processor_task \in {"token_sleep", "queue_wait"}

\* C8: while the breaker is Open and circuit_breaker_timeout has not passed
\* since circuit_opened_at, no step takes a request from the queue (the
\* queue only grows) and fetch_func is started for no other request than the
\* one already being retried
C8_NoDequeueWhileOpen ==
    [][(circuit_state = "OPEN" /\ OpenFor <= circuit_breaker_timeout)
          => /\ ~Dequeues
             /\ Len(request_queue') >= Len(request_queue)
             /\ SubSeq(request_queue', 1, Len(request_queue)) = request_queue
             /\ in_flight' > in_flight => (w_req # 0 /\ w_req' = w_req)]_vars

\* two rate-limit failures opened the breaker of threshold 2; the worker
\* has found it Open and sleeps while a request sits in the queue
C8_Witness ==
    /\ circuit_breaker_threshold = 2
    /\ circuit_state = "OPEN"
    /\ consecutive_failures >= circuit_breaker_threshold
    /\ request_queue # <<>>
    /\ processor_task = "breaker_sleep"
    /\ w_timer = BreakerSleep

\* a step of a caller inside fetch_stock_info
CallerStep ==
    \/ \E c \in Callers, k \in Keys :
          FetchStockInfo(c, k) \/ FetchStockSearch(c, k)
    \/ \E c \in Callers :
          \/ FetchReturn(c) \/ FetchTimeout(c)
          \/ SearchReturn(c) \/ SearchTimeout(c)

\* a step of the coroutine _process_queue
WorkerStep ==
    \/ WorkerBegin \/ BreakerWake \/ PacingWake \/ QueueTimeout
    \/ TokenWake \/ QueueWake \/ BackoffWake
    \/ \E o \in Outcomes : AttemptReturn(o)

\* the call of caller c for symbol k finds a live cache entry
HitStep(c, k) ==
    /\ FetchStockInfo(c, k)
    /\ GetCached(cache, GetCacheKey("info", k)).result # None

\* C9: no step of a caller changes tokens, last_refill, circuit_state,
\* consecutive_failures or circuit_opened_at; a cache hit returns the cached
\* value and puts nothing on the queue; tokens, circuit_state and
\* consecutive_failures change only in steps of the worker
C9_CallersLeaveAdmission ==
    [][/\ CallerStep => UNCHANGED <<tokens, last_refill, circuit_state,
                                    consecutive_failures, circuit_opened_at>>
       /\ \A c \in Callers, k \in Keys :
             HitStep(c, k) => /\ c_ret'[c] = cache[<<"info", k>>][1].result
                              /\ c_pc'[c] = "idle"
                              /\ UNCHANGED <<request_queue, requests>>
       /\ <<tokens, circuit_state, consecutive_failures>>'
             # <<tokens, circuit_state, consecutive_failures>>
                => WorkerStep]_vars

\* one of two calls was a cache hit, and the bucket is empty and the
\* breaker Open
C9_Witness ==
    /\ nfetch = 2
    /\ Len(requests) = 1
    /\ requests[1].key # 0
    /\ \E c \in Callers : c_pc[c] = "idle" /\ Truthy(c_ret[c])
    /\ tokens = 0
    /\ circuit_state = "OPEN"

\* C10 as stated: of two calls for the same symbol made less than cache_ttl
\* apart, in any interleaving, only one is dispatched: never do both get a
\* non-empty result of their own from upstream
C10_OneDispatchWithinTtl ==
    \A j \in 1..Len(requests) :
        requests[j].twin # 0
           => ~(/\ Truthy(requests[requests[j].twin].result)
                /\ Truthy(requests[j].result))

\* C10 amended: a call for a symbol made less than cache_ttl after an
\* earlier call for it that got a non-empty result puts a request on the
\* queue only if the earlier caller was still waiting when it was made; a
\* call made after the earlier one returned is served from the cache
C10_OneDispatchAfterReturn ==
    \A j \in 1..Len(requests) :
        (/\ requests[j].twin # 0
         /\ Truthy(requests[requests[j].twin].result))
           => requests[j].twin_waiting

\* two calls were made and both have returned, the second with the value
\* of the first, and one request was dispatched: the second call was made
\* after the first returned
C10_Witness ==
    /\ nfetch = 2
    /\ Len(requests) = 1
    /\ requests[1].key # 0
    /\ dispatched = <<1>>
    /\ \A c \in Callers : c_pc[c] = "idle"
    /\ \E c \in Callers : c_ret[c] = Info(requests[1].key)

\* C11: every request that finishes, with a result or with absence, is
\* followed by the pacing sleep of PacingDelay seconds, and the first attempt
\* of the next request starts no sooner than PacingDelay seconds after the
\* previous request's execution ended.
RequestEnds == AttemptEnds /\ processor_task' # "backoff_sleep"
FirstAttemptStarts == Dequeues /\ in_flight' = in_flight + 1 /\ w_attempt' = 0
C11_PacingBetweenRequests ==
    [][/\ RequestEnds
          => processor_task' = "pacing_sleep" /\ w_timer' = PacingDelay
       /\ (FirstAttemptStarts /\ since_end # <<>>)
          => since_end[1] >= PacingDelay
       /\ processor_task = "pacing_sleep" /\ w_timer > 0
          => ~FirstAttemptStarts]_vars
\* the second request is on its first attempt after the first one ended with
\* absence; the bucket held tokens to spare, so the only wait between the two
\* was the pacing sleep
C11_Witness ==
    /\ Len(dispatched) = 2
    /\ processor_task = "to_thread"
    /\ w_attempt = 0
    /\ requests[1].future = "done"
    /\ requests[1].result = None
    /\ since_end = <<PacingDelay>>
    /\ tokens >= Scale

\* C12: within one request the sleep before the retry that follows failed
\* attempt k is BackoffBase * 2^k seconds (10, 20) and lasts its full length;
\* it follows an empty result or a rate-limit error only; a request runs at
\* most MaxRetries attempts, and no backoff sleep follows the last of them.
C12_BackoffSchedule ==
    [][/\ w_attempt <= MaxRetries - 1
       /\ (AttemptEnds /\ processor_task' = "backoff_sleep")
          => /\ last_outcome' \in {"empty", "rate_limit"}
             /\ w_attempt < MaxRetries - 1
             /\ w_timer' = BackoffBase * (IF w_attempt = 0 THEN 1
                                          ELSE IF w_attempt = 1 THEN 2 ELSE 4)
       /\ (AttemptEnds /\ last_outcome' \in {"empty", "rate_limit"}
             /\ w_attempt < MaxRetries - 1)
          => processor_task' = "backoff_sleep"
       /\ (AttemptEnds /\ w_attempt = MaxRetries - 1)
          => processor_task' = "pacing_sleep"
       /\ (processor_task = "backoff_sleep"
             /\ processor_task' # "backoff_sleep")
          => /\ w_timer = 0
             /\ processor_task' = "to_thread"
             /\ w_attempt' = w_attempt + 1
             /\ w_req' = w_req]_vars
\* the third attempt of the first request came back empty: the request ended
\* with absence and the worker went to the pacing sleep, not to a backoff
C12_Witness ==
    /\ Len(dispatched) = 1
    /\ last_outcome = "empty"
    /\ processor_task = "pacing_sleep"
    /\ w_timer = PacingDelay
    /\ requests[1].future = "done"
    /\ requests[1].result = None

\* C13: when the operation of a request whose caller has timed out (the
\* caller got absence and the future is cancelled) comes back with a result,
\* the result is in the cache under the request's key, so that a later fetch
\* of the key within the TTL is a hit.
C13_TimedOutResultCached ==
    [][(/\ AttemptEnds
        /\ last_outcome' = "ok"
        /\ requests[w_req].key # 0
        /\ requests[w_req].future = "cancelled")
       => LET k == GetCacheKey("info", requests[w_req].key)
          IN  /\ HasEntry(cache', k)
              /\ cache'[k][1].result = Info(requests[w_req].symbol)]_vars

\* the requests on the queue
Queued(q) == {q[i] : i \in 1..Len(q)}

\* C14: a caller's timeout ends only its own wait: the step gives the caller
\* absence and leaves the queue, the bucket and the worker as they are; a
\* request on the queue leaves it only by being dispatched; and a request
\* whose caller has timed out is dispatched like any other when it is at the
\* head: a token is consumed, fetch_func is run, and the pacing sleep follows
\* the end of its execution.
C14_TimeoutLeavesRequestQueued ==
    [][/\ \A c \in Callers :
             FetchTimeout(c)
                => /\ c_ret'[c] = None
                   /\ UNCHANGED <<request_queue, tokens, last_refill,
                                  processor_task, w_req, in_flight>>
       /\ \A r \in Queued(request_queue) :
             \/ r \in Queued(request_queue')
             \/ dispatched' = Append(dispatched, r)
       /\ (request_queue # <<>> /\ Dequeues
             /\ requests[Head(request_queue)].future = "cancelled")
          => /\ request_queue' = Tail(request_queue)
             /\ w_req' = Head(request_queue)
             /\ tokens' = (IF tokens < Scale
                           THEN Min(max_tokens,
                                    tokens + (Now - last_refill)
                                                * requests_per_minute)
                           ELSE tokens) - Scale
             /\ tokens' >= 0
             /\ in_flight' = in_flight + 1
             /\ processor_task' = "to_thread"
       /\ (RequestEnds /\ requests[w_req].future = "cancelled")
          => /\ processor_task' = "pacing_sleep"
             /\ w_timer' = PacingDelay]_vars
\* the caller of the second request timed out while the request was on the
\* queue behind a slow first one; the worker has just taken the request (the
\* bucket was refilled at this instant), consumed a token and started its
\* operation
C14_Witness ==
    /\ dispatched = <<1, 2>>
    /\ requests[1].future = "cancelled"
    /\ requests[2].future = "cancelled"
    /\ c_pc = [c \in Callers |-> "idle"]
    /\ request_queue = <<>>
    /\ processor_task = "to_thread"
    /\ w_req = 2
    /\ w_attempt = 0
    /\ last_refill = Now
    /\ in_flight = 1

\* C15: the bucket of a new limiter holds InitialTokens (1) token, so the
\* first request is dispatched on that token, with no refill and no sleep for
\* one; a request is dispatched from a bucket short of a token only when the
\* time since last_refill, at requests_per_minute (10) tokens a minute, has
\* brought it to a whole token, and until then the worker sleeps and the
\* request stays on the queue.
C15_FirstTokenThenRefill ==
    [][/\ dispatched = <<>>
          => /\ tokens = InitialTokens * Scale
             /\ processor_task # "token_sleep"
       /\ (Dequeues /\ dispatched = <<>>)
          => /\ tokens' = 0
             /\ last_refill' = last_refill
       /\ Dequeues
          => tokens + (Now - last_refill) * requests_per_minute >= Scale
       /\ processor_task' = "token_sleep"
          => /\ tokens' < Scale
             /\ ~Dequeues]_vars
\* two requests for different symbols; the first went out on the initial
\* token and the second has just gone out on the token the bucket gained in
\* the 6 s since
C15_Witness ==
    /\ dispatched = <<1, 2>>
    /\ requests[1].key # requests[2].key
    /\ requests[1].key # 0
    /\ requests[2].key # 0
    /\ processor_task = "to_thread"
    /\ w_req = 2
    /\ w_attempt = 0
    /\ last_refill = Now
    /\ tokens = 0

\* C16: whatever fetch_func does (a result, an empty result, a rate-limit
\* error, any other error) and whether or not the caller's wait times out,
\* no future is completed with an exception and every call of
\* fetch_stock_info that has ended has returned a value or None; a call
\* whose wait timed out has returned None.
C16_NoErrorReachesCaller ==
    /\ \A r \in 1..Len(requests) :
          /\ requests[r].future \in {"pending", "done", "cancelled"}
          /\ requests[r].future = "done"
                => requests[r].result.kind \in {"none", "info", "bare"}
    /\ \A c \in Callers :
          c_ret[c].kind \in {"unset", "none", "info", "bare", "list"}
\* the first request ended with absence and its caller has None; the caller
\* of the second request timed out and has None too, and fetch_func has
\* since raised an error that is no rate-limit error for that request
C16_Witness ==
    /\ Len(requests) = 2
    /\ requests[1].future = "done"
    /\ requests[1].result = None
    /\ requests[2].future = "cancelled"
    /\ dispatched = <<1, 2>>
    /\ last_outcome = "error"
    /\ \A c \in Callers : c_pc[c] = "idle" /\ c_ret[c] = None

\* a step writes the entry of cache key k: the entry is new, holds another
\* result, or expires later than it did
Written(k) ==
    /\ HasEntry(cache', k)
    /\ \/ ~HasEntry(cache, k)
       \/ cache'[k][1].result # cache[k][1].result
       \/ cache'[k][1].expiry > cache[k][1].expiry

\* C17: an entry of the cache holds a non-empty result of the upstream
\* operation for its key, never None and never an empty value: ticker.info of
\* the symbol under an "info" key, a non-empty list of symbols tried for the
\* query under a "search" key.  An entry is written only by a caller whose
\* wait has returned such a result; a caller that gets None, from the
\* executor or from its timeout, leaves the cache as it is.
C17_CacheHoldsRealResults ==
    [][/\ \A k \in Keys :
             /\ HasEntry(cache, GetCacheKey("info", k))
                   => cache[GetCacheKey("info", k)][1].result.kind = "info"
                      /\ cache[GetCacheKey("info", k)][1].result.symbol = k
             /\ HasEntry(cache, GetCacheKey("search", k))
                   => LET e == cache[GetCacheKey("search", k)][1].result
                      IN  /\ e.kind = "list"
                          /\ e.items # {}
                          /\ e.items \subseteq
                                {Variation(k, v) : v \in Variations}
       /\ \A k \in Keys :
             /\ Written(GetCacheKey("info", k))
                   => \E c \in Callers :
                         /\ c_pc[c] = "waiting"
                         /\ c_pc'[c] = "idle"
                         /\ requests[c_req[c]].key = k
                         /\ requests[c_req[c]].future = "done"
                         /\ c_ret'[c] = requests[c_req[c]].result
                         /\ c_ret'[c] = cache'[GetCacheKey("info", k)][1].result
             /\ Written(GetCacheKey("search", k))
                   => \E c \in Callers :
                         /\ c_pc[c] = "search_waiting"
                         /\ c_pc'[c] = "idle"
                         /\ c_query[c] = k
                         /\ c_ret'[c]
                               = cache'[GetCacheKey("search", k)][1].result
       /\ \A c \in Callers :
             (c_pc[c] # "idle" /\ c_pc'[c] = "idle"
                /\ (c_ret'[c] = None \/ c_ret'[c] = List({})))
                => \A k \in CacheKeys : ~Written(k)]_vars
\* both calls have returned, one with ticker.info, which is in the cache,
\* and one with None, for whose symbol the cache holds nothing
C17_Witness ==
    /\ Len(requests) = 2
    /\ requests[1].key = 1
    /\ requests[2].key = 2
    /\ requests[1].result = Info(1)
    /\ requests[2].future = "done"
    /\ requests[2].result = None
    /\ \A c \in Callers : c_pc[c] = "idle"
    /\ HasEntry(cache, GetCacheKey("info", 1))
    /\ ~HasEntry(cache, GetCacheKey("info", 2))

\* the request whose attempt ends gets None: its future, unless the caller
\* has timed out, is completed with None, and no other request changes
GetsNone ==
    /\ requests[w_req].future = "pending"
          => requests' = [requests EXCEPT ![w_req].future = "done",
                                          ![w_req].result = None]
    /\ requests[w_req].future # "pending" => requests' = requests

\* C18: an attempt that ends with an error that is no rate-limit error ends
\* the request at once, whatever the attempt: the request gets None, the
\* worker goes to the pacing sleep with no backoff and no further run of
\* fetch_func, and circuit_state, consecutive_failures and circuit_opened_at
\* are as before.
C18_ErrorEndsRequest ==
    [][(AttemptEnds /\ last_outcome' = "error")
          => /\ GetsNone
             /\ processor_task' = "pacing_sleep"
             /\ w_timer' = PacingDelay
             /\ w_req' = 0
             /\ in_flight' = 0
             /\ active_requests' = active_requests - 1
             /\ UNCHANGED <<circuit_state, consecutive_failures,
                            circuit_opened_at>>]_vars
\* the second attempt of the first request raised such an error after the
\* first had been rate-limited: the request has ended with None and the
\* breaker still counts the one failure
C18_Witness ==
    /\ dispatched = <<1>>
    /\ last_outcome = "error"
    /\ processor_task = "pacing_sleep"
    /\ w_timer = PacingDelay
    /\ requests[1].future = "done"
    /\ requests[1].result = None
    /\ circuit_state = "CLOSED"
    /\ consecutive_failures = 1

\* C19: an attempt that ends with an empty result leaves circuit_state,
\* consecutive_failures and circuit_opened_at as they are; when it is not the
\* last attempt the worker sleeps the backoff and runs fetch_func again for
\* the same request, and when it is the last the request gets None.
C19_EmptyRetriesQuietly ==
    [][/\ (AttemptEnds /\ last_outcome' = "empty")
          => /\ UNCHANGED <<circuit_state, consecutive_failures,
                            circuit_opened_at>>
             /\ w_attempt < MaxRetries - 1
                   => /\ processor_task' = "backoff_sleep"
                      /\ w_timer' > 0
                      /\ UNCHANGED <<w_req, w_attempt, requests>>
             /\ w_attempt = MaxRetries - 1
                   => /\ GetsNone
                      /\ processor_task' = "pacing_sleep"
                      /\ w_req' = 0
       /\ (processor_task = "backoff_sleep" /\ last_outcome = "empty"
             /\ processor_task' # "backoff_sleep")
          => /\ processor_task' = "to_thread"
             /\ w_req' = w_req
             /\ w_attempt' = w_attempt + 1
             /\ in_flight' = in_flight + 1]_vars
\* the first attempt of the first request was rate-limited and the second
\* came back empty: the worker is in the second backoff sleep and the
\* breaker still counts the one failure
C19_Witness ==
    /\ dispatched = <<1>>
    /\ last_outcome = "empty"
    /\ processor_task = "backoff_sleep"
    /\ w_attempt = 1
    /\ w_req = 1
    /\ requests[1].future = "pending"
    /\ circuit_state = "CLOSED"
    /\ consecutive_failures = 1

\* C20: every attempt that ends with a rate-limit error adds exactly one to
\* consecutive_failures, the last attempt too; after the last attempt the
\* request gets None, after an earlier one the worker backs off.
C20_EveryRateLimitCounted ==
    [][(AttemptEnds /\ last_outcome' = "rate_limit")
          => /\ consecutive_failures' = consecutive_failures + 1
             /\ w_attempt = MaxRetries - 1
                   => /\ GetsNone
                      /\ processor_task' = "pacing_sleep"
                      /\ w_req' = 0
             /\ w_attempt < MaxRetries - 1
                   => /\ processor_task' = "backoff_sleep"
                      /\ UNCHANGED <<w_req, requests>>]_vars
\* all three attempts of the first request were rate-limited: three failures
\* are counted and the request has ended with None
C20_Witness ==
    /\ dispatched = <<1>>
    /\ last_outcome = "rate_limit"
    /\ consecutive_failures = MaxRetries
    /\ processor_task = "pacing_sleep"
    /\ w_timer = PacingDelay
    /\ requests[1].future = "done"
    /\ requests[1].result = None

\* C21: the lookup a call of fetch_stock_info makes returns the stored value
\* when the cache holds an entry for the key and now < expiry, and leaves
\* the cache as it is; with an entry and now >= expiry it finds nothing (the
\* call goes to the queue) and removes the entry; with no entry it finds
\* nothing.  A caller that stores a result leaves under the key the entry
\* (result, now + cache_ttl), whatever the key held before, and no other
\* entry changes.
C21_CacheGetPut ==
    [][/\ \A c \in Callers, k \in Keys :
             FetchStockInfo(c, k)
                => LET key == GetCacheKey("info", k)
                   IN  /\ (HasEntry(cache, key) /\ Now < cache[key][1].expiry)
                             => /\ c_ret'[c] = cache[key][1].result
                                /\ c_pc'[c] = "idle"
                                /\ cache' = cache
                       /\ (HasEntry(cache, key) /\ Now >= cache[key][1].expiry)
                             => /\ c_pc'[c] = "waiting"
                                /\ cache' = [cache EXCEPT ![key] = <<>>]
                       /\ ~HasEntry(cache, key)
                             => /\ c_pc'[c] = "waiting"
                                /\ cache' = cache
       /\ \A c \in Callers :
             (FetchReturn(c) /\ Truthy(requests[c_req[c]].result))
                => cache' = [cache EXCEPT
                                ![GetCacheKey("info", requests[c_req[c]].key)] =
                                    <<[result |-> requests[c_req[c]].result,
                                       expiry |-> Now + cache_ttl]>>]]_vars
\* the first call returned ticker.info and stored it; the second call for
\* the symbol came when the entry had expired: it went to the queue and the
\* entry is gone
C21_Witness ==
    /\ Len(requests) = 2
    /\ requests[1].key = requests[2].key
    /\ requests[1].future = "done"
    /\ Truthy(requests[1].result)
    /\ \A c \in Callers : c_req[c] # 1
    /\ \E c \in Callers : c_req[c] = 2 /\ c_pc[c] = "waiting"
    /\ requests[2].future = "pending"
    /\ ~HasEntry(cache, GetCacheKey("info", requests[1].key))

\* what the bucket holds when the worker comes to tokens -= 1.0 in a step:
\* _wait_for_token has refilled it if it was short of a token
BeforeConsume ==
    IF tokens < Scale
    THEN Min(max_tokens, tokens + (Now - last_refill) * requests_per_minute)
    ELSE tokens

\* C22: the step that takes a request from the queue takes exactly one token
\* from a bucket that holds at least one, and starts the request's operation
\* in the same step; no other step lowers tokens: not a retry of the request,
\* not a step of a caller, not a pass of the loop that dispatches nothing.
C22_OneTokenPerDequeue ==
    [][/\ Dequeues
          => /\ WorkerStep
             /\ BeforeConsume >= Scale
             /\ tokens' = BeforeConsume - Scale
             /\ Len(dispatched') = Len(dispatched) + 1
             /\ processor_task' = "to_thread"
             /\ in_flight' = in_flight + 1
       /\ ~Dequeues => tokens' >= tokens
       /\ tokens' # tokens => WorkerStep
       /\ (processor_task \in {"to_thread", "backoff_sleep"}
             /\ processor_task' \in {"to_thread", "backoff_sleep"})
          => tokens' = tokens]_vars
\* the first request took the initial token and is on its third attempt:
\* the bucket is as the dispatch left it
C22_Witness ==
    /\ dispatched = <<1>>
    /\ processor_task = "to_thread"
    /\ w_req = 1
    /\ w_attempt = MaxRetries - 1
    /\ tokens = 0
    /\ request_queue # <<>>

\* C23: a request that was inside the executor when stop() was called has
\* its future resolved by the worker: once the worker's task has ended, the
\* future holds the operation's result or is failed; the worker does not
\* leave it pending.
C23_MidFlightResolved ==
    (processor_task = "cancelled" /\ w_req # 0)
       => requests[w_req].future # "pending"

\* C24: a request that was on the queue, not yet dispatched, when stop() was
\* called is never taken from the queue afterwards, also not by the worker
\* of a later start(): its operation is never run.
C24_QueuedAtStopNeverRun ==
    [][Dequeues => ~requests[Head(request_queue)].at_stop]_vars

\* C25: a call of fetch_stock_info for a symbol the cache holds no live entry
\* for puts a request of its own at the end of the queue and waits for it,
\* whether or not a request for the same symbol is queued or running; a
\* request leaves the queue only by being dispatched, when no other
\* operation is running.  Two concurrent calls for a symbol thus lead to two
\* upstream operations, one after the other.
C25_DuplicatesNotCoalesced ==
    [][/\ \A c \in Callers, k \in Keys :
             (/\ FetchStockInfo(c, k)
              /\ ~(/\ HasEntry(cache, GetCacheKey("info", k))
                   /\ Now < cache[GetCacheKey("info", k)][1].expiry))
                => /\ Len(requests') = Len(requests) + 1
                   /\ requests'[Len(requests')].key = k
                   /\ requests'[Len(requests')].future = "pending"
                   /\ \A r \in 1..Len(requests) : requests'[r] = requests[r]
                   /\ request_queue' = Append(request_queue, Len(requests'))
                   /\ c_req'[c] = Len(requests')
                   /\ c_pc'[c] = "waiting"
       /\ \A r \in Queued(request_queue) :
             \/ r \in Queued(request_queue')
             \/ /\ dispatched' = Append(dispatched, r)
                /\ in_flight = 0
                /\ in_flight' = 1
                /\ w_req' = r]_vars
\* the second call for the symbol was made while the caller of the first was
\* waiting; both requests were dispatched, the second after the first had
\* come back, and each got a result from upstream
C25_Witness ==
    /\ Len(requests) = 2
    /\ requests[1].key = requests[2].key
    /\ requests[2].twin = 1
    /\ requests[2].twin_waiting
    /\ dispatched = <<1, 2>>
    /\ requests[1].future = "done"
    /\ requests[2].future = "done"
    /\ requests[1].result = Info(requests[1].key)
    /\ requests[2].result = Info(requests[2].key)
    /\ in_flight = 0

\* C26: every call to the provider made for a caller goes through the
\* scheduler: what a caller holds from the provider for a symbol (price
\* history, the answer that the symbol exists) was fetched by a request for
\* the symbol that the worker dispatched.
C26_EveryCallAdmitted ==
    \A c \in Callers :
        c_ret[c].kind \in {"hist", "valid"}
           => \E i \in 1..Len(dispatched) :
                 requests[dispatched[i]].symbol = c_ret[c].symbol

\* C27: the future of a request is resolved at most once.  A pending future
\* becomes done, with the result, in the step of the worker that ends the
\* request, or cancelled in the step of its caller whose wait has run out;
\* a future that is done or cancelled never changes again, and ending a
\* request whose future is cancelled takes the worker to the pacing sleep
\* like any other.
C27_FutureSingleAssignment ==
    [][\A r \in 1..Len(requests) :
          /\ requests[r].future # "pending"
                => /\ requests'[r].future = requests[r].future
                   /\ requests'[r].result = requests[r].result
          /\ (requests[r].future = "pending" /\ requests'[r].future = "done")
                => /\ RequestEnds
                   /\ w_req = r
          /\ (requests[r].future = "pending"
                /\ requests'[r].future = "cancelled")
                => \E c \in Callers :
                      /\ c_req[c] = r
                      /\ c_timer[c] = 0
                      /\ c_ret'[c] = None
                      /\ UNCHANGED worker
          /\ requests'[r].future \in {"pending", "done", "cancelled"}
          /\ (RequestEnds /\ w_req = r /\ requests[r].future = "cancelled")
                => /\ processor_task' = "pacing_sleep"
                   /\ active_requests' = active_requests - 1]_vars
\* the caller of the first request timed out while fetch_func was running;
\* fetch_func then returned a result, which the worker dropped: the future
\* is cancelled as the caller left it and the worker is in the pacing sleep
C27_Witness ==
    /\ dispatched = <<1>>
    /\ requests[1].future = "cancelled"
    /\ requests[1].result = None
    /\ last_outcome = "ok"
    /\ processor_task = "pacing_sleep"
    /\ w_timer = PacingDelay
    /\ active_requests = 0

\* C28: circuit_opened_at is stamped only by a step that takes the breaker
\* into Open from Closed or HalfOpen; while the breaker is Open no step of
\* the worker gives it another value, so the open period is not extended.
C28_OpenedAtStampedOnEntry ==
    [][(WorkerStep /\ circuit_opened_at' # circuit_opened_at)
          => /\ circuit_state # "OPEN"
             /\ circuit_state' = "OPEN"]_vars

\* C29: a check of an Open breaker made circuit_breaker_timeout seconds or
\* more after circuit_opened_at, the instant of exactly
\* circuit_breaker_timeout seconds included, answers true and moves the
\* breaker to HalfOpen.
C29_HalfOpenAtTimeout ==
    [][(CheckStep /\ circuit_state = "OPEN"
          /\ OpenFor >= circuit_breaker_timeout)
       => /\ circuit_state' = "HALF_OPEN"
          /\ processor_task' # "breaker_sleep"]_vars

\* C30: a call of fetch_stock_info that has put its request on the queue
\* returns, InfoWaitTimeout (120) seconds after the call at the latest: with
\* the future's result when the worker has completed the future, and with
\* None when the wait has run out, whatever the worker is doing (running,
\* stopped, sleeping on an Open breaker, busy with requests ahead).
C30_FetchReturnsWithinTimeout ==
    /\ [](\A c \in Callers :
             c_pc[c] = "waiting" => c_timer[c] \in 0..InfoWaitTimeout)
    /\ [][\A c \in Callers :
             (c_pc[c] = "waiting" /\ c_pc'[c] = "idle")
                => \/ /\ requests[c_req[c]].future = "done"
                      /\ c_ret'[c] = requests[c_req[c]].result
                   \/ /\ requests[c_req[c]].future = "pending"
                      /\ c_timer[c] = 0
                      /\ c_ret'[c] = None]_vars
    /\ \A c \in Callers : (c_pc[c] = "waiting") ~> (c_pc[c] = "idle")
\* stop() came while the request was on the queue; the request is still
\* there, the worker's task has ended, and the caller has returned None
\* after its wait ran out
C30_Witness ==
    /\ processor_task = "cancelled"
    /\ request_queue = <<1>>
    /\ requests[1].future = "cancelled"
    /\ \A c \in Callers : c_pc[c] = "idle"
    /\ \E c \in Callers : c_ret[c] = None

\* C31: while the breaker is Open and less than circuit_breaker_timeout
\* seconds have passed since circuit_opened_at, no step starts fetch_func:
\* not for a request from the queue and not for the next attempt of the
\* request being executed.
C31_NoAttemptWhileOpen ==
    [][(circuit_state = "OPEN" /\ OpenFor < circuit_breaker_timeout)
          => in_flight' <= in_flight]_vars
\* C32: a run of fetch_func that stop() left on its thread has ended before
\* the worker of a later start() starts fetch_func: while the later worker
\* awaits fetch_func, that run is the only one.
C32_NoOverlapAcrossRestart ==
    (nstart > 1 /\ processor_task = "to_thread") => in_flight = 1
\* stop() has returned: the limiter is stopped and the task it cancelled
\* has ended
StopReturned == ~is_running /\ processor_task \in {"cancelled", "finished"}

\* C33: whatever calls of start() and stop() have been made, one after the
\* other, at most one task running _process_queue is alive: a start() on a
\* running limiter creates none, and once stop() has returned none is left
\* and no request is taken from the queue.
C33_AtMostOneWorker ==
    /\ [](alive \in {0, 1} /\ (StopReturned => alive = 0))
    /\ [][StartRunning => alive' = alive]_vars
    /\ [][StopReturned => ~Dequeues]_vars
\* after a stop() and a second start() the one worker alive has taken a
\* request that was on the queue at the stop
C33_Witness ==
    /\ nstart = MaxStarts
    /\ alive = 1
    /\ processor_task = "to_thread"
    /\ requests[w_req].at_stop
\* C34: on a running limiter whose worker is scheduled and whose fetch_func
\* calls return, every request put on the queue is taken from it and its
\* fetch_func started, whatever the calls end with: an Open breaker lets the
\* worker through once circuit_breaker_timeout has passed.
C34_QueuedEventuallyDispatched ==
    \A r \in 1..MaxRequests :
        (r \in Queued(request_queue)) ~> (r \in Queued(dispatched))
\* the first request's calls all met a rate limit and left the breaker Open;
\* the worker waited the timeout out, went to HalfOpen and has started the
\* second request, whose caller is still waiting
C34_Witness ==
    /\ dispatched = <<1, 2>>
    /\ last_outcome = "rate_limit"
    /\ circuit_state = "HALF_OPEN"
    /\ processor_task = "to_thread"
    /\ w_req = 2
    /\ requests[2].future = "pending"
\* C35: in every reachable state, a breaker that is Closed or HalfOpen has
\* counted fewer than circuit_breaker_threshold failures, and a breaker that
\* is Open has its circuit_opened_at set.
C35_BreakerConsistent ==
    /\ circuit_breaker_threshold >= 1
    /\ circuit_state \in {"CLOSED", "HALF_OPEN"}
          => consecutive_failures < circuit_breaker_threshold
    /\ circuit_state = "OPEN" => circuit_opened_at # <<>>
\* one failure short of the threshold: the breaker of threshold 2 is still
\* Closed after the first rate-limit error of a request
C35_Witness ==
    /\ circuit_breaker_threshold = 2
    /\ circuit_state = "CLOSED"
    /\ consecutive_failures = 1
    /\ last_outcome = "rate_limit"
    /\ processor_task = "backoff_sleep"
\* C36: consecutive_failures goes down only when an attempt ends with a
\* result (to 0) or when a check moves the breaker from Open to HalfOpen
\* (to 0).  An attempt that ends with an empty result or with an error that
\* is no rate-limit error leaves the breaker as it is, so the rate-limit
\* errors before and after it add up: each adds one, and the one that
\* brings the count to circuit_breaker_threshold opens the breaker.
C36_OnlySuccessResets ==
    [][/\ consecutive_failures' < consecutive_failures
            => /\ consecutive_failures' = 0
               /\ \/ AttemptEnds /\ Success(last_outcome')
                  \/ /\ CheckStep
                     /\ circuit_state = "OPEN"
                     /\ circuit_state' = "HALF_OPEN"
       /\ (AttemptEnds /\ last_outcome' \in {"empty", "error"})
            => UNCHANGED breaker
       /\ (AttemptEnds /\ last_outcome' = "rate_limit")
            => /\ consecutive_failures' = consecutive_failures + 1
               /\ consecutive_failures' >= circuit_breaker_threshold
                     => circuit_state' = "OPEN"]_vars
\* the first attempt of the request met a rate limit, the second has ended
\* with an empty result: the count of the breaker of threshold 2 is still 1
C36_Witness ==
    /\ circuit_breaker_threshold = 2
    /\ dispatched = <<1>>
    /\ w_attempt = 1
    /\ last_outcome = "empty"
    /\ consecutive_failures = 1
    /\ circuit_state = "CLOSED"
    /\ processor_task = "backoff_sleep"
\* C37: an attempt that ends with a result while the breaker is Open (a
\* retry of the request whose earlier attempts opened it) sets
\* consecutive_failures to 0 and leaves circuit_state Open and
\* circuit_opened_at as it was; the breaker leaves Open only when a check
\* finds circuit_breaker_timeout passed, and then to HalfOpen.
C37_SuccessWhileOpenStaysOpen ==
    [][/\ (AttemptEnds /\ Success(last_outcome') /\ circuit_state = "OPEN")
            => /\ consecutive_failures' = 0
               /\ circuit_state' = "OPEN"
               /\ UNCHANGED circuit_opened_at
       /\ (circuit_state = "OPEN" /\ circuit_state' # "OPEN")
            => /\ CheckStep
               /\ OpenFor > circuit_breaker_timeout
               /\ circuit_state' = "HALF_OPEN"]_vars
\* the first attempt opened the breaker of threshold 1 and the retry has
\* returned a result: the breaker is Open with no failure counted
C37_Witness ==
    /\ circuit_breaker_threshold = 1
    /\ dispatched = <<1>>
    /\ last_outcome = "ok"
    /\ circuit_state = "OPEN"
    /\ consecutive_failures = 0
    /\ requests[1].result = Info(requests[1].symbol)
\* the time request r was taken from the queue
DispatchedAt(r) == requests[r].dispatched_at[1]

\* C38: of the requests taken from the queue, those taken within any T
\* seconds number at most max_tokens + T * refill_rate (in tokens of Scale:
\* max_tokens + T * requests_per_minute), however long the limiter was idle
\* before the first of them.
C38_RateBound ==
    \A i, j \in 1..Len(dispatched) :
        (i < j /\ Now - DispatchedAt(dispatched[i]) < Horizon)
           => (j - i + 1) * Scale
                 <= max_tokens
                      + (DispatchedAt(dispatched[j])
                            - DispatchedAt(dispatched[i]))
                        * requests_per_minute
=============================================================================
